---- MODULE Spec2Model ----
(***************************************************************************)
(* Household optimisation and tax calibration of inauguralproject.py:      *)
(* totalcost, houseprice, u_func, u_max, avgtax and tg_finder.             *)
(*                                                                         *)
(* Real numbers are exact rationals [n |-> numerator, d |-> denominator],  *)
(* kept in lowest terms with d > 0, so floating-point rounding is the only *)
(* thing abstracted: "equal within tolerance" is exact equality here.      *)
(* A utility value c^(1-phi) * h^phi is irrational in general; it is kept  *)
(* as the triple it is computed from and compared exactly through integer  *)
(* powers.                                                                 *)
(***************************************************************************)
EXTENDS Integers, Sequences, FiniteSets, TLC

------------------------------------------------------------------------
(* Exact rational arithmetic (the float operators +, -, *, /, <, max). *)

\* Body applied to the value of v: v is computed once, where LET would
\* compute it again at every use
With(v, Body(_)) ==
    CHOOSE res \in {Body(x) : x \in {v}} : TRUE

RECURSIVE GCD(_, _)
GCD(a, b) ==
    IF b = 0 THEN a ELSE GCD(b, a % b)

Abs(x) ==
    IF x < 0 THEN -x ELSE x

Q(n, d) ==
    LET s == IF d < 0 THEN -1 ELSE 1
        g == GCD(Abs(n), Abs(d))
    IN  [n |-> (s * n) \div g, d |-> (s * d) \div g]

Zero ==
    Q(0, 1)

RAdd(x, y) ==
    LET g == GCD(x.d, y.d)
    IN  Q(x.n * (y.d \div g) + y.n * (x.d \div g), (x.d \div g) * y.d)

RNeg(x) ==
    [n |-> -x.n, d |-> x.d]

RSub(x, y) ==
    RAdd(x, RNeg(y))

RMul(x, y) ==
    LET a == Q(x.n, y.d)
        b == Q(y.n, x.d)
    IN  [n |-> a.n * b.n, d |-> a.d * b.d]

\* x / y for y # 0 (every caller tests the divisor first)
RDiv(x, y) ==
    RMul(x, Q(y.d, y.n))

RECURSIVE FracLt(_, _, _, _)
\* a/b < c/d for b, d > 0, by whole parts and then the reciprocals of the
\* fractional parts, so that no product is formed
FracLt(a, b, c, d) ==
    IF a \div b # c \div d THEN a \div b < c \div d
    ELSE With(<<a % b, c % d>>, LAMBDA rem :
             IF rem[2] = 0 THEN FALSE
             ELSE IF rem[1] = 0 THEN TRUE
             ELSE FracLt(d, rem[2], b, rem[1]))

RLt(x, y) ==
    FracLt(x.n, x.d, y.n, y.d)

RLeq(x, y) ==
    ~RLt(y, x)

RMax(x, y) ==
    IF RLt(x, y) THEN y ELSE x

IsNum(x) ==
    "n" \in DOMAIN x

------------------------------------------------------------------------
(* Natural numbers of any size, as little-endian sequences of base-1000   *)
(* digits: the integer powers that order two utility values do not fit a  *)
(* machine word.                                                          *)

RECURSIVE BigMulSmall(_, _, _)
BigMulSmall(a, k, carry) ==
    IF a = <<>>
    THEN IF carry = 0 THEN <<>> ELSE <<carry % 1000>> \o BigMulSmall(<<>>, k, carry \div 1000)
    ELSE LET v == Head(a) * k + carry
         IN  <<v % 1000>> \o BigMulSmall(Tail(a), k, v \div 1000)

RECURSIVE BigPow(_, _, _)
\* acc * k^e
BigPow(acc, k, e) ==
    IF e = 0 THEN acc ELSE BigPow(BigMulSmall(acc, k, 0), k, e - 1)

RECURSIVE BigLtSameLen(_, _, _)
BigLtSameLen(a, b, i) ==
    IF i = 0 THEN FALSE
    ELSE IF a[i] # b[i] THEN a[i] < b[i]
    ELSE BigLtSameLen(a, b, i - 1)

BigLt(a, b) ==
    IF Len(a) # Len(b) THEN Len(a) < Len(b) ELSE BigLtSameLen(a, b, Len(a))

------------------------------------------------------------------------
(* Values that are not numbers. *)

\* numpy's nan: a negative base raised to a fractional power
NaN ==
    [nan |-> TRUE]

\* an exception leaving the function
Err(e) ==
    [err |-> e]

IsErr(x) ==
    "err" \in DOMAIN x

------------------------------------------------------------------------
(* Default arguments of the signatures. *)

\* r=0.03, tg=0.012, tp=0.004, eps=0.5, pc=3
DefaultCfg ==
    [r |-> Q(3, 100), tg |-> Q(3, 250), tp |-> Q(1, 250), eps |-> Q(1, 2), pc |-> Q(3, 1)]

\* phi=0.3
DefaultPhi ==
    Q(3, 10)

------------------------------------------------------------------------
(* u_func: c^(1-phi) * h^phi.  The value is kept as [c, h, phi]; a       *)
(* negative base gives nan.                                              *)

u_func(c, h, phi) ==
    IF RLt(c, Zero) \/ RLt(h, Zero) THEN NaN ELSE [c |-> c, h |-> h, phi |-> phi]

IsNaN(u) ==
    "nan" \in DOMAIN u

\* u = 0: both exponents are positive, so a zero base gives zero
UIsZero(u) ==
    u.c.n = 0 \/ u.h.n = 0

\* u1 > u2 as floats compare: false when either is nan.  For phi = a/b,
\* u1 > u2 iff c1^(b-a) * h1^a > c2^(b-a) * h2^a.
UGt(u1, u2) ==
    IF IsNaN(u1) \/ IsNaN(u2) THEN FALSE
    ELSE IF UIsZero(u1) THEN FALSE
    ELSE IF UIsZero(u2) THEN TRUE
    ELSE LET a  == u1.phi.n
             b  == u1.phi.d
             rc == RDiv(u1.c, u2.c)
             rh == RDiv(u1.h, u2.h)
         IN  BigLt(BigPow(BigPow(<<1>>, rc.d, b - a), rh.d, a),
                   BigPow(BigPow(<<1>>, rc.n, b - a), rh.n, a))

------------------------------------------------------------------------
(* The cost model. *)

\* totalcost with the progressive term taken below the cutoff too
totalcost_nomax(ph, cfg) ==
    LET pv == RMul(ph, cfg.eps)
    IN  RAdd(RAdd(RMul(cfg.r, ph), RMul(cfg.tg, pv)),
             RMul(cfg.tp, RSub(pv, cfg.pc)))

\* totalcost taxing the whole assessed value once it is above the cutoff
totalcost_jump(ph, cfg) ==
    LET pv == RMul(ph, cfg.eps)
    IN  RAdd(RAdd(RMul(cfg.r, ph), RMul(cfg.tg, pv)),
             IF RLt(cfg.pc, pv) THEN RMul(cfg.tp, pv) ELSE Zero)

totalcost(ph, cfg) ==
    LET pv == RMul(ph, cfg.eps)
    IN  RAdd(RAdd(RMul(cfg.r, ph), RMul(cfg.tg, pv)),
             RMul(cfg.tp, RMax(RSub(pv, cfg.pc), Zero)))

\* The kink test calls totalcost(pc/eps) with one argument: the cost at the
\* kink is computed with totalcost's default r, tg, tp, eps, pc.
houseprice(tc, cfg) ==
    IF cfg.eps.n = 0 THEN Err("ZeroDivisionError")
    ELSE IF RLt(totalcost(RDiv(cfg.pc, cfg.eps), DefaultCfg), tc)
    THEN LET den == RAdd(cfg.r, RMul(cfg.eps, RAdd(cfg.tg, cfg.tp)))
         IN  IF den.n = 0 THEN Err("ZeroDivisionError")
             ELSE RDiv(RAdd(tc, RMul(cfg.pc, cfg.tp)), den)
    ELSE LET den == RAdd(cfg.r, RMul(cfg.tg, cfg.eps))
         IN  IF den.n = 0 THEN Err("ZeroDivisionError")
             ELSE RDiv(tc, den)

------------------------------------------------------------------------
(* u_max. *)

\* resolution of the bounded scalar search: candidates lo + (hi-lo)*k/GridN
GridN ==
    10

GridPoint(lo, hi, k, n) ==
    RAdd(lo, RMul(RSub(hi, lo), Q(k, n)))

\* the nested objective: minus the utility of the bundle the budget leaves
u_max_objective(h, phi, m, cfg) ==
    LET c == RSub(m, totalcost(h, cfg))
    IN  [neg |-> u_func(c, h, phi)]

\* f1 < f2 for two objective values -u1, -u2
ObjLt(f1, f2) ==
    UGt(f1.neg, f2.neg)

RECURSIVE ScanUtility(_, _, _, _, _, _, _)
\* candidates k..GridN against the best so far: a candidate replaces it
\* only when its objective compares strictly below (a nan never does)
ScanUtility(k, best, fbest, hi, phi, m, cfg) ==
    IF k > GridN THEN best
    ELSE LET x == GridPoint(Zero, hi, k, GridN)
         IN  With(u_max_objective(x, phi, m, cfg), LAMBDA f :
                 IF ObjLt(f, fbest)
                 THEN ScanUtility(k + 1, x, f, hi, phi, m, cfg)
                 ELSE ScanUtility(k + 1, best, fbest, hi, phi, m, cfg))

\* optimize.minimize_scalar(objective, method='Bounded', bounds=(0, hi)):
\* the minimiser of the objective over the candidates of [0, hi]; bounds
\* with hi < 0 are rejected
MinimizeUtility(hi, phi, m, cfg) ==
    IF RLt(hi, Zero) THEN Err("ValueError")
    ELSE With(u_max_objective(Zero, phi, m, cfg), LAMBDA f0 :
             ScanUtility(1, Zero, f0, hi, phi, m, cfg))

\* c_star = m - totalcost(h_star): totalcost is called with its defaults
u_max(phi, m, cfg) ==
    With(houseprice(m, cfg), LAMBDA hi :
        IF IsErr(hi) THEN hi
        ELSE With(MinimizeUtility(hi, phi, m, cfg), LAMBDA h_star :
                 IF IsErr(h_star) THEN h_star
                 ELSE LET c_star == RSub(m, totalcost(h_star, DefaultCfg))
                          u_star == u_func(c_star, h_star, phi)
                      IN  [c |-> c_star, h |-> h_star, u |-> u_star]))

------------------------------------------------------------------------
(* avgtax. *)

\* the household's tax on the housing itself, not on its assessed value
HouseholdTax_noeps(mi, cfg) ==
    With(u_max(DefaultPhi, mi, cfg), LAMBDA res :
        IF IsErr(res) THEN res
        ELSE LET paoh == res.h
             IN  RAdd(RMul(cfg.tg, paoh), RMul(cfg.tp, RMax(RSub(paoh, cfg.pc), Zero))))

\* the tax of one household: tg*paoh + tp*max(paoh - pc, 0), where paoh is
\* the assessed value eps*h_star of the housing u_max returns
HouseholdTax(mi, cfg) ==
    With(u_max(DefaultPhi, mi, cfg), LAMBDA res :
        IF IsErr(res) THEN res
        ELSE LET paoh == RMul(res.h, cfg.eps)
             IN  RAdd(RMul(cfg.tg, paoh), RMul(cfg.tp, RMax(RSub(paoh, cfg.pc), Zero))))

RECURSIVE SumTax(_, _, _, _)
\* the loop "for mi in ba: sum += ..." from household i on; an exception
\* of u_max ends it
SumTax(ba, i, sum, cfg) ==
    IF i > Len(ba) THEN sum
    ELSE With(HouseholdTax(ba[i], cfg), LAMBDA t :
             IF IsErr(t) THEN t
             ELSE With(RAdd(sum, t), LAMBDA s : SumTax(ba, i + 1, s, cfg)))

\* avgtax dividing floats: 0.0/0 is nan, not an exception
avgtax_nan(ba, cfg) ==
    With(SumTax(ba, 1, Zero, cfg), LAMBDA sum :
        IF IsErr(sum) THEN sum
        ELSE IF Len(ba) = 0 THEN NaN
        ELSE RDiv(sum, Q(Len(ba), 1)))

\* sum/ba.size: for an empty array the loop leaves the int 0, and 0/0 on
\* two ints raises ZeroDivisionError
avgtax(ba, cfg) ==
    With(SumTax(ba, 1, Zero, cfg), LAMBDA sum :
        IF IsErr(sum) THEN sum
        ELSE IF Len(ba) = 0 THEN Err("ZeroDivisionError")
        ELSE RDiv(sum, Q(Len(ba), 1)))

------------------------------------------------------------------------
(* tg_finder. *)

\* resolution of the bounded scalar search over tg in [0, 1]
TgGridN ==
    4

RAbs(x) ==
    [n |-> Abs(x.n), d |-> x.d]

WithTg(par, tg) ==
    [r |-> par.r, tg |-> tg, tp |-> par.tp, eps |-> par.eps, pc |-> par.pc]

\* the objective without np.abs
tg_finder_objective_noabs(tg_new, ba, target, par) ==
    With(avgtax(ba, WithTg(par, tg_new)), LAMBDA a :
        IF IsErr(a) THEN a ELSE RSub(target, a))

\* the nested objective: np.abs(target - avgtax(ba, r, tg_new, tp, eps, pc))
tg_finder_objective(tg_new, ba, target, par) ==
    With(avgtax(ba, WithTg(par, tg_new)), LAMBDA a :
        IF IsErr(a) THEN a ELSE RAbs(RSub(target, a)))

RECURSIVE ScanGap(_, _, _, _, _, _)
\* candidates k..TgGridN against the best so far; an exception of the
\* objective leaves the search
ScanGap(k, best, fbest, ba, target, par) ==
    IF IsErr(fbest) THEN fbest
    ELSE IF k > TgGridN THEN best
    ELSE LET x == GridPoint(Zero, Q(1, 1), k, TgGridN)
         IN  With(tg_finder_objective(x, ba, target, par), LAMBDA f :
                 IF IsErr(f) THEN f
                 ELSE IF RLt(f, fbest)
                 THEN ScanGap(k + 1, x, f, ba, target, par)
                 ELSE ScanGap(k + 1, best, fbest, ba, target, par))

\* optimize.minimize_scalar(objective, method='bounded', bounds=[0,1]),
\* returning res.x
tg_finder(ba, target, par) ==
    With(tg_finder_objective(Zero, ba, target, par), LAMBDA f0 :
        ScanGap(1, Zero, f0, ba, target, par))

------------------------------------------------------------------------
(* The inputs the functions are called with. *)

\* the defaults of tg_finder's signature next to r=0.03, tg=0.012
TgFinderCfg ==
    [r |-> Q(3, 100), tg |-> Q(3, 250), tp |-> Q(9, 1000), eps |-> Q(4, 5), pc |-> Q(8, 1)]

\* a cheap schedule: low interest, no taxes
LowRateCfg ==
    [r |-> Q(1, 100), tg |-> Zero, tp |-> Zero, eps |-> Q(1, 2), pc |-> Q(3, 1)]

\* no interest and no general tax: only the progressive tax
ZeroRateCfg ==
    [r |-> Zero, tg |-> Zero, tp |-> Q(1, 250), eps |-> Q(1, 2), pc |-> Q(3, 1)]

Cfgs ==
    {DefaultCfg, TgFinderCfg, LowRateCfg, ZeroRateCfg}

Prices ==
    {Zero, Q(3, 1), Q(6, 1), Q(19, 2), Q(10, 1), Q(12, 1)}

Budgets ==
    {Q(-1, 2), Zero, Q(1, 2), Q(1, 1), Q(3, 2)}

Phis ==
    {DefaultPhi, Q(1, 2), Q(7, 10)}

\* houseprice is called on budgets and on costs totalcost returned
Costs ==
    Budgets \cup {totalcost(p, c) : p \in Prices, c \in Cfgs}

\* budgets of the households of a population
PopBudgets ==
    {Q(1, 2), Q(3, 2)}

\* largest population
MaxPop ==
    2

Populations ==
    UNION {[1..n -> PopBudgets] : n \in 0..MaxPop}

\* the fixed r, tp, eps, pc of a calibration
TgParams ==
    {[r |-> c.r, tp |-> c.tp, eps |-> c.eps, pc |-> c.pc] : c \in {DefaultCfg, TgFinderCfg}}

\* no tax at all, more than any household pays, and what the household
\* with budget 0.5 pays on average at tg = 0.5 under each parameter set
Targets ==
    {Zero, Q(1, 1)} \cup {avgtax(<<Q(1, 2)>>, WithTg(par, Q(1, 2))) : par \in TgParams}

------------------------------------------------------------------------
(* The session: one call at a time, each a pure function of its inputs. *)

VARIABLES op, args, ret

vars ==
    <<op, args, ret>>

None ==
    [none |-> TRUE]

Init ==
    /\ op = "none"
    /\ args = None
    /\ ret = None

Call_totalcost ==
    /\ op = "none"
    /\ \E ph \in Prices, cfg \in Cfgs :
          /\ op' = "totalcost"
          /\ args' = [ph |-> ph, cfg |-> cfg]
          /\ ret' = totalcost(ph, cfg)

Call_houseprice ==
    /\ op = "none"
    /\ \E tc \in Costs, cfg \in Cfgs :
          /\ op' = "houseprice"
          /\ args' = [tc |-> tc, cfg |-> cfg]
          /\ ret' = houseprice(tc, cfg)

Call_u_max ==
    /\ op = "none"
    /\ \E phi \in Phis, m \in Budgets, cfg \in Cfgs :
          /\ op' = "u_max"
          /\ args' = [phi |-> phi, m |-> m, cfg |-> cfg]
          /\ ret' = u_max(phi, m, cfg)

Call_avgtax ==
    /\ op = "none"
    /\ \E ba \in Populations, cfg \in Cfgs :
          /\ op' = "avgtax"
          /\ args' = [ba |-> ba, cfg |-> cfg]
          /\ ret' = avgtax(ba, cfg)

Call_tg_finder ==
    /\ op = "none"
    /\ \E ba \in Populations, target \in Targets, par \in TgParams :
          /\ op' = "tg_finder"
          /\ args' = [ba |-> ba, target |-> target, par |-> par]
          /\ ret' = tg_finder(ba, target, par)

\* the call has returned; nothing is kept between calls
Finish ==
    /\ op # "none"
    /\ op' = "none"
    /\ args' = None
    /\ ret' = None

Next ==
    \/ Call_totalcost
    \/ Call_houseprice
    \/ Call_u_max
    \/ Call_avgtax
    \/ Call_tg_finder
    \/ Finish

Spec ==
    Init /\ [][Next]_vars

------------------------------------------------------------------------
(* Properties. *)

\* a TaxConfig of the data model: no negative field, eps in (0, 1]
Valid(cfg) ==
    /\ RLeq(Zero, cfg.r)
    /\ RLeq(Zero, cfg.tg)
    /\ RLeq(Zero, cfg.tp)
    /\ RLeq(Zero, cfg.pc)
    /\ RLt(Zero, cfg.eps)
    /\ RLeq(cfg.eps, Q(1, 1))

\* u_max returned its triple
IsResult(x) ==
    "h" \in DOMAIN x

\* u1 >= u2 for two utilities that are numbers
UGeq(u1, u2) ==
    /\ ~IsNaN(u1)
    /\ ~IsNaN(u2)
    /\ ~UGt(u2, u1)

\* C1: houseprice(totalcost(p, cfg), cfg) = p for every price p >= 0 and
\* every valid config passed to both calls (stated for the configs with a
\* positive interest rate, under which totalcost is strictly increasing).
C1_RoundTrip ==
    (op = "houseprice" /\ Valid(args.cfg) /\ RLt(Zero, args.cfg.r)) =>
        \A p \in Prices :
            (RLeq(Zero, p) /\ totalcost(p, args.cfg) = args.tc) => ret = p

\* C2: the pair u_max returns for a budget m >= 0 exhausts the budget under
\* the config that was passed: c* + totalcost(h*, cfg) = m.
C2_BudgetIdentity ==
    (op = "u_max" /\ RLeq(Zero, args.m) /\ Valid(args.cfg) /\ IsResult(ret)) =>
        RAdd(ret.c, totalcost(ret.h, args.cfg)) = args.m

\* C3: the result of u_max for a budget m >= 0 is feasible:
\* 0 <= h* <= houseprice(m, cfg), c* >= 0 and the utility is a number >= 0.
C3_Feasible ==
    (op = "u_max" /\ RLeq(Zero, args.m) /\ Valid(args.cfg) /\ IsResult(ret)) =>
        /\ RLeq(Zero, ret.h)
        /\ IsNum(houseprice(args.m, args.cfg))
        /\ RLeq(ret.h, houseprice(args.m, args.cfg))
        /\ RLeq(Zero, ret.c)
        /\ ~IsNaN(ret.u)

\* C4: totalcost(price, cfg) is r*price + tg*(eps*price) when eps*price is
\* at or below pc, and tp*(eps*price - pc) more when it is above; price 3
\* under the defaults costs 0.108 and price 10 costs 0.368.
C4_TotalcostFormula ==
    op = "totalcost" =>
        LET ph   == args.ph
            cfg  == args.cfg
            pv   == RMul(cfg.eps, ph)
            base == RAdd(RMul(cfg.r, ph), RMul(cfg.tg, pv))
        IN  /\ RLeq(pv, cfg.pc) => ret = base
            /\ RLt(cfg.pc, pv) => ret = RAdd(base, RMul(cfg.tp, RSub(pv, cfg.pc)))
            /\ (ph = Q(3, 1) /\ cfg = DefaultCfg) => ret = Q(108, 1000)
            /\ (ph = Q(10, 1) /\ cfg = DefaultCfg) => ret = Q(368, 1000)

C4_Witness ==
    /\ op = "totalcost"
    /\ args.ph = Q(10, 1)
    /\ args.cfg = DefaultCfg
    /\ RLt(args.cfg.pc, RMul(args.cfg.eps, args.ph))
    /\ ret = Q(368, 1000)

\* C5: the utility u_max returns for a budget m >= 0 is a number that no
\* feasible candidate (h on the grid of [0, houseprice(m, cfg)],
\* c = m - totalcost(h, cfg) >= 0) exceeds.
C5_Optimal ==
    (op = "u_max" /\ RLeq(Zero, args.m) /\ Valid(args.cfg) /\ IsResult(ret)) =>
        \A k \in 0..GridN :
            LET h == GridPoint(Zero, houseprice(args.m, args.cfg), k, GridN)
                c == RSub(args.m, totalcost(h, args.cfg))
            IN  RLeq(Zero, c) => UGeq(ret.u, u_func(c, h, args.phi))

\* the tax the spec charges a household with housing h
TaxOf(h, cfg) ==
    LET pv == RMul(cfg.eps, h)
    IN  IF RLeq(pv, cfg.pc) THEN RMul(cfg.tg, pv)
        ELSE RAdd(RMul(cfg.tg, pv), RMul(cfg.tp, RSub(pv, cfg.pc)))

RECURSIVE SeqSum(_)
SeqSum(q) ==
    IF q = <<>> THEN Zero ELSE RAdd(Head(q), SeqSum(Tail(q)))

\* C6: for a non-empty population avgtax returns the arithmetic mean of the
\* households' taxes tg*(eps*h_i) + tp*max(eps*h_i - pc, 0), h_i being the
\* housing u_max returns for budget m_i under the passed config, and the
\* result is the same for every order of the budgets.
C6_AvgtaxMean ==
    (op = "avgtax" /\ Len(args.ba) > 0
        /\ \A i \in 1..Len(args.ba) : IsResult(u_max(DefaultPhi, args.ba[i], args.cfg))) =>
        /\ IsNum(ret)
        /\ RMul(ret, Q(Len(args.ba), 1)) =
              SeqSum([i \in 1..Len(args.ba) |->
                        TaxOf(u_max(DefaultPhi, args.ba[i], args.cfg).h, args.cfg)])
        /\ \A pi \in Permutations(1..Len(args.ba)) :
              avgtax([i \in 1..Len(args.ba) |-> args.ba[pi[i]]], args.cfg) = ret

\* two households, one taxed above the cutoff and one below it
C6_Witness ==
    /\ op = "avgtax"
    /\ Len(args.ba) = 2
    /\ args.ba[1] # args.ba[2]
    /\ IsNum(ret)
    /\ \E i \in 1..2 :
          RLt(args.cfg.pc, RMul(args.cfg.eps, u_max(DefaultPhi, args.ba[i], args.cfg).h))
    /\ \E i \in 1..2 :
          RLt(RMul(args.cfg.eps, u_max(DefaultPhi, args.ba[i], args.cfg).h), args.cfg.pc)
    /\ RLt(Zero, ret)

\* C7: avgtax on an empty population ends in an error (the division by the
\* population size is a division by zero) and returns no value, nan or other.
C7_EmptyPopulation ==
    (op = "avgtax" /\ Len(args.ba) = 0) =>
        /\ IsErr(ret)
        /\ ret = Err("ZeroDivisionError")

C7_Witness ==
    /\ op = "avgtax"
    /\ args.ba = <<>>
    /\ IsErr(ret)

TgGrid ==
    {Q(k, TgGridN) : k \in 0..TgGridN}

\* avgtax along [0, 1] for the arguments of a tg_finder call: pairs <<tg, avgtax>>
TaxCurve ==
    {<<tg, avgtax(args.ba, WithTg(args.par, tg))>> : tg \in TgGrid}

\* C8: for a non-empty population tg_finder returns a tg in [0, 1] whose gap
\* |target - avgtax| no tg of [0, 1] undercuts; avgtax at the returned tg is
\* the target whenever some tg attains it; and when the target lies outside
\* everything avgtax attains, the returned tg is the end of [0, 1] with the
\* smaller gap.
C8_Calibration ==
    (op = "tg_finder" /\ Len(args.ba) > 0) =>
        /\ IsNum(ret)
        /\ RLeq(Zero, ret)
        /\ RLeq(ret, Q(1, 1))
        /\ With(<<avgtax(args.ba, WithTg(args.par, ret)), TaxCurve>>, LAMBDA v :
              LET found == v[1]
                  curve == v[2]
                  gap   == RAbs(RSub(args.target, found))
              IN  /\ \A p \in curve : RLeq(gap, RAbs(RSub(args.target, p[2])))
                  /\ (\E p \in curve : p[2] = args.target) => found = args.target
                  /\ (\/ \A p \in curve : RLt(args.target, p[2])
                      \/ \A p \in curve : RLt(p[2], args.target)) =>
                        /\ ret \in {Zero, Q(1, 1)}
                        /\ \A p \in curve :
                              p[1] \in {Zero, Q(1, 1)} =>
                                  RLeq(gap, RAbs(RSub(args.target, p[2]))))

\* a target attained strictly inside [0, 1] is hit
C8_Witness ==
    /\ op = "tg_finder"
    /\ Len(args.ba) > 0
    /\ IsNum(ret)
    /\ RLt(Zero, ret)
    /\ RLt(ret, Q(1, 1))
    /\ RLt(Zero, args.target)
    /\ avgtax(args.ba, WithTg(args.par, ret)) = args.target

\* C9: totalcost is non-decreasing in the price, and continuous at the kink:
\* where eps*price = pc the two linear pieces give the same cost, and between
\* two prices the cost never rises faster than the steeper piece.
C9_MonotoneContinuous ==
    op = "totalcost" =>
        LET ph    == args.ph
            cfg   == args.cfg
            low   == RAdd(cfg.r, RMul(cfg.tg, cfg.eps))
            steep == RAdd(cfg.r, RMul(cfg.eps, RAdd(cfg.tg, cfg.tp)))
        IN  /\ \A p2 \in Prices :
                  RLeq(ph, p2) =>
                      /\ RLeq(ret, totalcost(p2, cfg))
                      /\ RLeq(RSub(totalcost(p2, cfg), ret), RMul(steep, RSub(p2, ph)))
            /\ RMul(cfg.eps, ph) = cfg.pc =>
                  /\ ret = RMul(low, ph)
                  /\ ret = RSub(RMul(steep, ph), RMul(cfg.pc, cfg.tp))

\* a price at the kink of a config with a progressive tax, below a dearer one
C9_Witness ==
    /\ op = "totalcost"
    /\ RMul(args.cfg.eps, args.ph) = args.cfg.pc
    /\ RLt(Zero, args.cfg.tp)
    /\ RLt(Zero, ret)
    /\ \E p2 \in Prices : RLt(args.ph, p2) /\ RLt(ret, totalcost(p2, args.cfg))

\* C10: u_max ends in an error or an undefined result only when m < 0: for
\* m >= 0 and a valid config houseprice(m, cfg) is a number >= 0 and u_max
\* returns numbers; for m < 0 the call fails, the upper bound houseprice
\* gives the search being negative.
C10_ErrorOnlyNegativeBudget ==
    (op = "u_max" /\ Valid(args.cfg)) =>
        /\ RLeq(Zero, args.m) =>
              /\ IsNum(houseprice(args.m, args.cfg))
              /\ RLeq(Zero, houseprice(args.m, args.cfg))
              /\ IsResult(ret)
              /\ ~IsNaN(ret.u)
        /\ RLt(args.m, Zero) =>
              /\ IsErr(ret)
              /\ IsNum(houseprice(args.m, args.cfg)) =>
                    RLt(houseprice(args.m, args.cfg), Zero)

====
